---- MODULE Spec2Model ----
(***************************************************************************)
(* A model of src/app.py (the legal matter tracker): the two JSON stores   *)
(* (matters.json, users.json), the request handlers that change them, and  *)
(* the pure helpers they call.                                             *)
(*                                                                         *)
(* Python strings are modelled as sequences of one-character strings, so   *)
(* that strip(), lower(), strptime() and isoformat() are computed, not     *)
(* assumed.  "abc" of the source is <<"a","b","c">> here.                  *)
(***************************************************************************)
EXTENDS Integers, Sequences, FiniteSets, TLC

VARIABLES
    matters,    \* the content of data/matters.json: a sequence of matter records
    users,      \* the content of data/users.json: a sequence of owner records
    nextId,     \* the number of ids new_id() has handed out so far
    last,       \* the outcome of the last request handled (what it flashes or returns)
    req         \* the last request as it was received, where a run records it

vars == <<matters, users, nextId, last, req>>

(***************************************************************************)
(* Bounds of the model.                                                    *)
(***************************************************************************)
MaxMatters == 2     \* records in matters.json
MaxUsers == 2       \* records in users.json
MaxIds == 3         \* calls of new_id() in one run
MaxRows == 2        \* rows of an imported sheet
MaxCols == 3        \* columns of a sheet given to header reconciliation

(***************************************************************************)
(* Strings.                                                                *)
(***************************************************************************)
UpperLetters == <<"A","B","C","D","E","F","G","H","I","J","K","L","M",
                  "N","O","P","Q","R","S","T","U","V","W","X","Y","Z">>
LowerLetters == <<"a","b","c","d","e","f","g","h","i","j","k","l","m",
                  "n","o","p","q","r","s","t","u","v","w","x","y","z">>
Digits == <<"0","1","2","3","4","5","6","7","8","9">>

\* str.lower() on one character
LowerChar(c) ==
    IF \E i \in 1..26 : UpperLetters[i] = c
    THEN LowerLetters[CHOOSE i \in 1..26 : UpperLetters[i] = c]
    ELSE c

\* str.lower()
Lower(s) == [i \in 1..Len(s) |-> LowerChar(s[i])]

IsSpace(c) == c \in {" ", "\t", "\n"}

RECURSIVE LStrip(_)
LStrip(s) == IF s # <<>> /\ IsSpace(Head(s)) THEN LStrip(Tail(s)) ELSE s

RECURSIVE RStrip(_)
RStrip(s) ==
    IF s # <<>> /\ IsSpace(s[Len(s)]) THEN RStrip(SubSeq(s, 1, Len(s) - 1)) ELSE s

\* str.strip()
Strip(s) == RStrip(LStrip(s))

IsDigit(c) == \E i \in 1..10 : Digits[i] = c
DigitVal(c) == (CHOOSE i \in 1..10 : Digits[i] = c) - 1
DigitChar(n) == Digits[n + 1]

\* "x in s" for a one-character x
Contains(s, c) == \E i \in 1..Len(s) : s[i] = c

\* s.split(c): the parts of s between the occurrences of c
RECURSIVE Split(_, _)
Split(s, c) ==
    IF ~Contains(s, c) THEN <<s>>
    ELSE LET i == CHOOSE k \in 1..Len(s) :
                     s[k] = c /\ \A j \in 1..(k - 1) : s[j] # c
         IN  <<SubSeq(s, 1, i - 1)>> \o Split(SubSeq(s, i + 1, Len(s)), c)

AllDigits(s) == \A i \in 1..Len(s) : IsDigit(s[i])

\* the value of a string of decimal digits
RECURSIVE DecVal(_)
DecVal(s) ==
    IF s = <<>> THEN 0 ELSE 10 * DecVal(SubSeq(s, 1, Len(s) - 1)) + DigitVal(s[Len(s)])

\* a number printed in exactly w digits, zero padded (w = 2 or 4)
RECURSIVE Pad(_, _)
Pad(n, w) == IF w = 0 THEN <<>> ELSE Pad(n \div 10, w - 1) \o <<DigitChar(n % 10)>>

(***************************************************************************)
(* Calendar dates: datetime.date.                                          *)
(***************************************************************************)
MINYEAR == 1
MAXYEAR == 9999

IsLeap(y) == (y % 4 = 0) /\ ((y % 100 # 0) \/ (y % 400 = 0))

DaysInMonth(y, m) ==
    IF m = 2 THEN (IF IsLeap(y) THEN 29 ELSE 28)
    ELSE IF m \in {4, 6, 9, 11} THEN 30 ELSE 31

\* datetime.date(y, m, d) does not raise ValueError
ValidYMD(y, m, d) ==
    /\ y >= MINYEAR /\ y <= MAXYEAR
    /\ m >= 1 /\ m <= 12
    /\ d >= 1 /\ d <= DaysInMonth(y, m)

\* date.isoformat()
IsoFormat(y, m, d) == Pad(y, 4) \o <<"-">> \o Pad(m, 2) \o <<"-">> \o Pad(d, 2)

\* strptime's %Y: exactly four digits
MatchY(p) == Len(p) = 4 /\ AllDigits(p)

\* strptime's %m: 1[0-2] | 0[1-9] | [1-9]
MatchM(p) ==
    /\ Len(p) \in {1, 2} /\ AllDigits(p)
    /\ DecVal(p) >= 1 /\ DecVal(p) <= 12

\* strptime's %d: 3[01] | [12]\d | 0[1-9] | [1-9] | " "[1-9]
MatchD(p) ==
    \/ /\ Len(p) \in {1, 2} /\ AllDigits(p)
       /\ DecVal(p) >= 1 /\ DecVal(p) <= 31
    \/ /\ Len(p) = 2 /\ p[1] = " " /\ IsDigit(p[2]) /\ DigitVal(p[2]) >= 1

DayVal(p) == IF p[1] = " " THEN DigitVal(p[2]) ELSE DecVal(p)

\* datetime.strptime(s, "%d/%m/%Y").date(): [ok, y, m, d]; ok = FALSE is ValueError
StrptimeDMY(s) ==
    LET p == Split(s, "/")
    IN  IF Len(p) = 3 /\ MatchD(p[1]) /\ MatchM(p[2]) /\ MatchY(p[3])
           /\ ValidYMD(DecVal(p[3]), DecVal(p[2]), DayVal(p[1]))
        THEN [ok |-> TRUE, y |-> DecVal(p[3]), m |-> DecVal(p[2]), d |-> DayVal(p[1])]
        ELSE [ok |-> FALSE, y |-> 0, m |-> 0, d |-> 0]

\* datetime.strptime(s, "%Y-%m-%d").date()
StrptimeYMD(s) ==
    LET p == Split(s, "-")
    IN  IF Len(p) = 3 /\ MatchY(p[1]) /\ MatchM(p[2]) /\ MatchD(p[3])
           /\ ValidYMD(DecVal(p[1]), DecVal(p[2]), DayVal(p[3]))
        THEN [ok |-> TRUE, y |-> DecVal(p[1]), m |-> DecVal(p[2]), d |-> DayVal(p[3])]
        ELSE [ok |-> FALSE, y |-> 0, m |-> 0, d |-> 0]

\* normalize_date(date_str): DD/MM/YYYY or YYYY-MM-DD to YYYY-MM-DD; any string
\* that does not parse is returned as it came
normalize_date(date_str) ==
    IF date_str = <<>> THEN <<>>
    ELSE LET r == IF Contains(date_str, "/") THEN StrptimeDMY(date_str)
                  ELSE StrptimeYMD(date_str)
         IN  IF r.ok THEN IsoFormat(r.y, r.m, r.d) ELSE date_str

\* datetime.date.fromisoformat(s) for the extended format YYYY-MM-DD, the only
\* one every supported Python accepts: two-digit month and day, no padding blank
FromIsoFormat(s) ==
    IF /\ Len(s) = 10 /\ s[5] = "-" /\ s[8] = "-"
       /\ AllDigits(SubSeq(s, 1, 4)) /\ AllDigits(SubSeq(s, 6, 7))
       /\ AllDigits(SubSeq(s, 9, 10))
       /\ ValidYMD(DecVal(SubSeq(s, 1, 4)), DecVal(SubSeq(s, 6, 7)),
                   DecVal(SubSeq(s, 9, 10)))
    THEN [ok |-> TRUE, y |-> DecVal(SubSeq(s, 1, 4)), m |-> DecVal(SubSeq(s, 6, 7)),
          d |-> DecVal(SubSeq(s, 9, 10))]
    ELSE [ok |-> FALSE, y |-> 0, m |-> 0, d |-> 0]

DaysBeforeYear(y) ==
    365 * (y - 1) + ((y - 1) \div 4) - ((y - 1) \div 100) + ((y - 1) \div 400)

RECURSIVE DaysBeforeMonth(_, _)
DaysBeforeMonth(y, m) ==
    IF m = 1 THEN 0 ELSE DaysBeforeMonth(y, m - 1) + DaysInMonth(y, m - 1)

\* date.toordinal()
ToOrdinal(y, m, d) == DaysBeforeYear(y) + DaysBeforeMonth(y, m) + d

MaxOrdinal == ToOrdinal(MAXYEAR, 12, 31)

\* date.fromordinal(n), for 1 <= n <= MaxOrdinal
FromOrdinal(n) ==
    LET y == CHOOSE yy \in ((n \div 366) + 1)..((n \div 365) + 1) :
                 DaysBeforeYear(yy) < n /\ n <= DaysBeforeYear(yy + 1)
        r == n - DaysBeforeYear(y)
        m == CHOOSE mm \in 1..12 :
                 DaysBeforeMonth(y, mm) < r /\ r <= DaysBeforeMonth(y, mm) + DaysInMonth(y, mm)
    IN  [y |-> y, m |-> m, d |-> r - DaysBeforeMonth(y, m)]

\* the day difference as it is, below 0 when the close precedes the receipt:
\* compute_cycle_days without its max(delta, 0)
compute_cycle_days_signed(date_received_iso, date_closed_iso) ==
    IF date_received_iso = <<>> \/ date_closed_iso = <<>> THEN 0
    ELSE LET d1 == FromIsoFormat(date_received_iso)
             d2 == FromIsoFormat(date_closed_iso)
         IN  IF ~d1.ok \/ ~d2.ok THEN 0
             ELSE ToOrdinal(d2.y, d2.m, d2.d) - ToOrdinal(d1.y, d1.m, d1.d)

\* compute_cycle_days(date_received_iso, date_closed_iso): the day difference,
\* never below 0; 0 when a date is missing or does not parse
compute_cycle_days(date_received_iso, date_closed_iso) ==
    IF date_received_iso = <<>> \/ date_closed_iso = <<>> THEN 0
    ELSE LET d1 == FromIsoFormat(date_received_iso)
             d2 == FromIsoFormat(date_closed_iso)
         IN  IF ~d1.ok \/ ~d2.ok THEN 0
             ELSE LET delta == ToOrdinal(d2.y, d2.m, d2.d) - ToOrdinal(d1.y, d1.m, d1.d)
                  IN  IF delta > 0 THEN delta ELSE 0

(***************************************************************************)
(* Numbers typed as text.  The texts of the model are written with digits, *)
(* a sign, "." and ","; exponents, "inf", "nan" and "_" are not among the  *)
(* inputs.                                                                 *)
(***************************************************************************)
IsSign(c) == c \in {"+", "-"}

Unsigned(s) == IF s # <<>> /\ IsSign(Head(s)) THEN Tail(s) ELSE s
Signed(s, n) == IF s # <<>> /\ Head(s) = "-" THEN 0 - n ELSE n

\* int(s) for a str s: [ok, val]; ok = FALSE is ValueError
PyInt(s) ==
    LET t == Strip(s)
        u == Unsigned(t)
    IN  IF u # <<>> /\ AllDigits(u)
        THEN [ok |-> TRUE, val |-> Signed(t, DecVal(u))]
        ELSE [ok |-> FALSE, val |-> 0]

\* int(float(s)) for a str s: the float's value cut towards zero
PyIntFloat(s) ==
    LET t == Strip(s)
        u == Unsigned(t)
        p == Split(u, ".")
    IN  IF /\ Len(p) \in {1, 2}
           /\ \A i \in 1..Len(p) : AllDigits(p[i])
           /\ \E i \in 1..Len(p) : p[i] # <<>>
        THEN [ok |-> TRUE, val |-> Signed(t, DecVal(p[1]))]
        ELSE [ok |-> FALSE, val |-> 0]

\* s.replace(c, "")
RECURSIVE Remove(_, _)
Remove(s, c) ==
    IF s = <<>> THEN <<>>
    ELSE IF Head(s) = c THEN Remove(Tail(s), c)
    ELSE <<Head(s)>> \o Remove(Tail(s), c)

\* to_int(val) for a str val, with the default 0
to_int(val) ==
    LET s == Strip(val)
    IN  IF s = <<>> \/ Lower(s) \in {<<"n","a">>, <<"n","/","a">>, <<"n","o","n","e">>}
        THEN 0
        ELSE LET r == PyIntFloat(Remove(s, ","))
             IN  IF r.ok THEN r.val ELSE 0

(***************************************************************************)
(* The stores.  A matter carries the canonical fields the handlers compute *)
(* with; the other FIELDS of the source (Group Entity, Branch, Internal    *)
(* Dept, Contract Type, Contract Name, Internal Stakeholder, Who With,     *)
(* Stage, Commentary) are copied text that no handler reads.  An id is a   *)
(* number: n >= 1 is the n-th value new_id() returned, 0 is a falsy id     *)
(* ("" or null), a negative number is a text chosen by an API client.      *)
(***************************************************************************)
\* new_id(): a value not handed out before, given that n were handed out
new_id(n) == n + 1

\* get_matters(): the loaded list with an id given to every record that has
\* none, in list order; changed tells that the list was written back
AssignedCons(m, rest) ==
    [data |-> <<m>> \o rest.data, n |-> rest.n, changed |-> rest.changed]

RECURSIVE AssignIds(_, _)
AssignIds(data, n) ==
    IF data = <<>> THEN [data |-> <<>>, n |-> n, changed |-> FALSE]
    ELSE IF Head(data).id = 0
    THEN [AssignedCons([Head(data) EXCEPT !.id = new_id(n)],
                       AssignIds(Tail(data), n + 1)) EXCEPT !.changed = TRUE]
    ELSE AssignedCons(Head(data), AssignIds(Tail(data), n))

get_matters(file, n) == AssignIds(file, n)

\* the number of ids get_matters() would hand out
MissingIds(file) == Cardinality({i \in 1..Len(file) : file[i].id = 0})

\* next(x for x in xs if x["id"] == id, None): the index, 0 for None
FirstWithId(xs, id) ==
    IF \E i \in 1..Len(xs) : xs[i].id = id
    THEN CHOOSE i \in 1..Len(xs) : xs[i].id = id /\ \A j \in 1..(i - 1) : xs[j].id # id
    ELSE 0

\* a lookup that compares the trimmed names as they are spelled: what
\* find_user_by_name would be without its lower()
find_user_by_name_cased(us, name) ==
    IF \E i \in 1..Len(us) : Strip(us[i].name) = Strip(name)
    THEN CHOOSE i \in 1..Len(us) :
             /\ Strip(us[i].name) = Strip(name)
             /\ \A j \in 1..(i - 1) : Strip(us[j].name) # Strip(name)
    ELSE 0

\* find_user_by_name(users, name): the index of the first owner whose name is
\* name, both trimmed and lower-cased; 0 for None
find_user_by_name(us, name) ==
    LET name_norm == Lower(Strip(name))
    IN  IF \E i \in 1..Len(us) : Lower(Strip(us[i].name)) = name_norm
        THEN CHOOSE i \in 1..Len(us) :
                 /\ Lower(Strip(us[i].name)) = name_norm
                 /\ \A j \in 1..(i - 1) : Lower(Strip(us[j].name)) # name_norm
        ELSE 0

(***************************************************************************)
(* Header reconciliation.  HEADER_ALIASES is the dict the source builds:   *)
(* its literal names "Date Received", "Group Entity" and "Overall Status"  *)
(* twice, and a Python dict literal keeps a repeated key at its first      *)
(* place with its last value.  can is the canonical field, name its        *)
(* spelling.                                                               *)
(***************************************************************************)
HEADER_ALIASES == <<
    [can |-> "Ref", name |-> <<"R","e","f">>,
     aliases |-> <<<<"R","e","f">>,
                   <<"R","e","f","e","r","e","n","c","e">>,
                   <<"M","a","t","t","e","r">>,
                   <<"T","i","t","l","e">>>>],
    [can |-> "Date Received", name |-> <<"D","a","t","e"," ","R","e","c","e","i","v","e","d">>,
     aliases |-> <<<<"D","a","t","e"," ","R","e","c","e","i","v","e","d">>,
                   <<"D","a","t","e">>>>],
    [can |-> "Group Entity", name |-> <<"G","r","o","u","p"," ","E","n","t","i","t","y">>,
     aliases |-> <<<<"G","r","o","u","p"," ","E","n","t","i","t","y">>,
                   <<"G","r","o","u","p">>>>],
    [can |-> "Counterparty", name |-> <<"C","o","u","n","t","e","r","p","a","r","t","y">>,
     aliases |-> <<<<"C","o","u","n","t","e","r","p","a","r","t","y">>,
                   <<"O","t","h","e","r"," ","P","a","r","t","y">>,
                   <<"V","e","n","d","o","r">>,
                   <<"S","u","p","p","l","i","e","r">>,
                   <<"C","u","s","t","o","m","e","r">>>>],
    [can |-> "Branch", name |-> <<"B","r","a","n","c","h">>,
     aliases |-> <<<<"B","r","a","n","c","h">>,
                   <<"S","i","t","e">>,
                   <<"L","o","c","a","t","i","o","n">>>>],
    [can |-> "Legal", name |-> <<"L","e","g","a","l">>,
     aliases |-> <<<<"L","e","g","a","l">>,
                   <<"L","a","w","y","e","r">>,
                   <<"H","a","n","d","l","e","r">>>>],
    [can |-> "Internal Dept", name |-> <<"I","n","t","e","r","n","a","l"," ","D","e","p","t">>,
     aliases |-> <<<<"I","n","t","e","r","n","a","l"," ","D","e","p","t">>,
                   <<"D","e","p","a","r","t","m","e","n","t">>,
                   <<"I","n","t","e","r","n","a","l"," ","D","e","p","a","r","t","m","e","n","t">>,
                   <<"D","e","p","t">>>>],
    [can |-> "Contract Type", name |-> <<"C","o","n","t","r","a","c","t"," ","T","y","p","e">>,
     aliases |-> <<<<"C","o","n","t","r","a","c","t"," ","T","y","p","e">>,
                   <<"T","y","p","e">>>>],
    [can |-> "Contract Name", name |-> <<"C","o","n","t","r","a","c","t"," ","N","a","m","e">>,
     aliases |-> <<<<"C","o","n","t","r","a","c","t"," ","N","a","m","e">>,
                   <<"A","g","r","e","e","m","e","n","t">>,
                   <<"N","a","m","e">>>>],
    [can |-> "Internal Stakeholder", name |-> <<"I","n","t","e","r","n","a","l"," ","S","t","a","k","e","h","o","l","d","e","r">>,
     aliases |-> <<<<"I","n","t","e","r","n","a","l"," ","S","t","a","k","e","h","o","l","d","e","r">>,
                   <<"S","t","a","k","e","h","o","l","d","e","r">>,
                   <<"R","e","q","u","e","s","t","e","r">>,
                   <<"R","e","q","u","e","s","t","o","r">>>>],
    [can |-> "Who With", name |-> <<"W","h","o"," ","W","i","t","h">>,
     aliases |-> <<<<"W","h","o"," ","W","i","t","h">>,
                   <<"W","i","t","h">>,
                   <<"C","o","u","n","t","e","r","p","a","r","t","y"," ","C","o","n","t","a","c","t">>>>],
    [can |-> "Stage", name |-> <<"S","t","a","g","e">>,
     aliases |-> <<<<"S","t","a","g","e">>,
                   <<"P","h","a","s","e">>,
                   <<"S","t","e","p">>>>],
    [can |-> "Overall Status", name |-> <<"O","v","e","r","a","l","l"," ","S","t","a","t","u","s">>,
     aliases |-> <<<<"O","v","e","r","a","l","l"," ","S","t","a","t","u","s">>,
                   <<"S","t","a","t","u","s">>>>],
    [can |-> "Commentary", name |-> <<"C","o","m","m","e","n","t","a","r","y">>,
     aliases |-> <<<<"C","o","m","m","e","n","t","a","r","y">>,
                   <<"N","o","t","e","s">>,
                   <<"C","o","m","m","e","n","t","s">>,
                   <<"S","u","m","m","a","r","y">>>>],
    [can |-> "Days with Legal", name |-> <<"D","a","y","s"," ","w","i","t","h"," ","L","e","g","a","l">>,
     aliases |-> <<<<"D","a","y","s"," ","w","i","t","h"," ","L","e","g","a","l">>,
                   <<"D","a","y","s","_","w","i","t","h","_","L","e","g","a","l">>,
                   <<"D","a","y","s"," ","W","i","t","h"," ","L","e","g","a","l">>>>],
    [can |-> "Total Cycle Time", name |-> <<"T","o","t","a","l"," ","C","y","c","l","e"," ","T","i","m","e">>,
     aliases |-> <<<<"T","o","t","a","l"," ","C","y","c","l","e"," ","T","i","m","e">>,
                   <<"T","o","t","a","l","_","C","y","c","l","e","_","T","i","m","e">>,
                   <<"C","y","c","l","e"," ","T","i","m","e">>>>],
    [can |-> "Owner", name |-> <<"O","w","n","e","r">>,
     aliases |-> <<<<"O","w","n","e","r">>,
                   <<"M","a","t","t","e","r"," ","O","w","n","e","r">>,
                   <<"A","s","s","i","g","n","e","d"," ","T","o">>,
                   <<"A","s","s","i","g","n","e","e">>,
                   <<"L","e","g","a","l">>>>]
>>

IsAlnum(c) == IsDigit(c) \/ \E i \in 1..26 : LowerLetters[i] = c

\* squash(s): re.sub(r"[^a-z0-9]+", "", str(s).lower())
squash(s) == SelectSeq(Lower(s), IsAlnum)

SeqToSet(s) == {s[i] : i \in 1..Len(s)}

\* the straight alias pass of normalize_headers, from the k-th canonical field on
RECURSIVE AliasPass(_, _, _)
AliasPass(cols, k, mapping) ==
    IF k > Len(HEADER_ALIASES) THEN mapping
    ELSE LET low_aliases == {Lower(a) : a \in SeqToSet(HEADER_ALIASES[k].aliases)}
             hit == {c \in SeqToSet(cols) :
                        Lower(Strip(c)) \in low_aliases /\ c \notin DOMAIN mapping}
         IN  AliasPass(cols, k + 1,
                       mapping @@ [c \in hit |-> HEADER_ALIASES[k].can])

\* the fuzzy pass for one column: the canonical fields whose name or alias
\* squashes to the column's squashed text
FuzzyHits(c) ==
    {k \in 1..Len(HEADER_ALIASES) :
        \/ squash(HEADER_ALIASES[k].name) = squash(c)
        \/ \E a \in SeqToSet(HEADER_ALIASES[k].aliases) : squash(a) = squash(c)}

Min(S) == CHOOSE x \in S : \A y \in S : x <= y

\* normalize_headers(df_columns): a mapping from column label to canonical field
normalize_headers(df_columns) ==
    LET exact == AliasPass(df_columns, 1, <<>>)
        unmapped == {c \in SeqToSet(df_columns) : c \notin DOMAIN exact}
        fuzzy == {c \in unmapped : FuzzyHits(c) # {}}
    IN  exact @@ [c \in fuzzy |-> HEADER_ALIASES[Min(FuzzyHits(c))].can]

(***************************************************************************)
(* The order of Python strings (by code point), for sorted().              *)
(***************************************************************************)
\* the printable ASCII characters, chr(32) to chr(126), in order; the double
\* quote, the backslash and the backtick, which no text of the model holds, are
\* spelled out to keep the places of the others
Ascii == <<
    " ","!","dquote","#","$","%","&","'","(",")","*","+",",","-",".","/",
    "0","1","2","3","4","5","6","7","8","9",":",";","<","=",">","?",
    "@","A","B","C","D","E","F","G","H","I","J","K","L","M","N","O",
    "P","Q","R","S","T","U","V","W","X","Y","Z","[","backslash","]","^","_",
    "backtick","a","b","c","d","e","f","g","h","i","j","k","l","m","n","o",
    "p","q","r","s","t","u","v","w","x","y","z","{","|","}","~"
>>

\* ord(c)
Ord(c) == 31 + (CHOOSE i \in 1..Len(Ascii) : Ascii[i] = c)

\* a < b for two str
RECURSIVE StrLess(_, _)
StrLess(a, b) ==
    IF b = <<>> THEN FALSE
    ELSE IF a = <<>> THEN TRUE
    ELSE IF Head(a) = Head(b) THEN StrLess(Tail(a), Tail(b))
    ELSE Ord(Head(a)) < Ord(Head(b))

\* sorted(S) for a set S of str
RECURSIVE Sorted(_)
Sorted(S) ==
    IF S = {} THEN <<>>
    ELSE LET m == CHOOSE x \in S : \A y \in S \ {x} : StrLess(x, y)
         IN  <<m>> \o Sorted(S \ {m})

(***************************************************************************)
(* Import: the record builder, owner auto-provisioning, the merge.         *)
(***************************************************************************)
\* the canonical fields of the model, in the order of FIELDS
FIELDS == <<"Ref", "Date Received", "Counterparty", "Legal", "Overall Status",
            "Date Closed", "Days with Legal", "Total Cycle Time", "Owner">>

\* the cells pandas hands over: a blank (NaN), a date (Timestamp), anything else
NaN == [kind |-> "nan"]
Stamp(y, m, d) == [kind |-> "ts", y |-> y, m |-> m, d |-> d]
Text(s) == [kind |-> "str", s |-> s]

\* v of the copy loop: "" for a blank, the ISO date of a Timestamp, str(val)
CellStr(val) ==
    IF val.kind = "nan" THEN <<>>
    ELSE IF val.kind = "ts" THEN IsoFormat(val.y, val.m, val.d)
    ELSE val.s

\* copy values by mapped columns, from the i-th column on; a later column bound
\* to the same field overwrites an earlier one; a field the model does not carry
\* is dropped
RECURSIVE CopyCells(_, _, _, _, _)
CopyCells(rec, cols, row, mapping, i) ==
    IF i > Len(cols) THEN rec
    ELSE IF cols[i] \in DOMAIN mapping /\ mapping[cols[i]] \in DOMAIN rec
    THEN CopyCells([rec EXCEPT ![mapping[cols[i]]] = Strip(CellStr(row[i]))],
                   cols, row, mapping, i + 1)
    ELSE CopyCells(rec, cols, row, mapping, i + 1)

\* int(float(x or 0)), 0 on any exception
CoerceInt(x) == IF x = <<>> THEN 0 ELSE IF PyIntFloat(x).ok THEN PyIntFloat(x).val ELSE 0

\* Date Closed derived from Date Received and Total Cycle Time; "" when
\* fromisoformat raises or the sum leaves date's range (OverflowError)
DeriveClosed(date_received, days) ==
    LET d0 == FromIsoFormat(date_received)
    IN  IF d0.ok /\ ToOrdinal(d0.y, d0.m, d0.d) + days <= MaxOrdinal
        THEN LET d == FromOrdinal(ToOrdinal(d0.y, d0.m, d0.d) + days)
             IN  IsoFormat(d.y, d.m, d.d)
        ELSE <<>>

\* the record built from one row, before the admission test and the id
build_record(cols, row, mapping) ==
    LET r0 == CopyCells([f \in SeqToSet(FIELDS) |-> <<>>], cols, row, mapping, 1)
        r1 == [r0 EXCEPT !["Date Received"] = normalize_date(r0["Date Received"])]
        r2 == IF r1["Date Closed"] # <<>>
              THEN [r1 EXCEPT !["Date Closed"] = normalize_date(r1["Date Closed"])]
              ELSE r1
        r3 == [r2 EXCEPT !["Days with Legal"] = CoerceInt(r2["Days with Legal"]),
                         !["Total Cycle Time"] = CoerceInt(r2["Total Cycle Time"])]
    IN  IF r3["Date Closed"] = <<>> /\ r3["Date Received"] # <<>>
           /\ r3["Total Cycle Time"] > 0
        THEN [r3 EXCEPT !["Date Closed"] =
                            DeriveClosed(r3["Date Received"], r3["Total Cycle Time"])]
        ELSE r3

\* an admission rule that keeps every built record
admitted_any(rec) == rec["Ref"] = rec["Ref"]

\* skip empty rows: a record is kept when it has a Ref or a Counterparty
admitted(rec) == rec["Ref"] # <<>> \/ rec["Counterparty"] # <<>>

WithId(rec, id) == [k \in DOMAIN rec \cup {"id"} |-> IF k = "id" THEN id ELSE rec[k]]

\* records of the import: the admitted records among built (one record per
\* row, in row order) from the i-th on, each with a new id, n ids being in use
RECURSIVE build_records(_, _, _)
build_records(built, i, n) ==
    IF i > Len(built) THEN <<>>
    ELSE IF admitted(built[i])
    THEN <<WithId(built[i], new_id(n))>> \o build_records(built, i + 1, n + 1)
    ELSE build_records(built, i + 1, n)

\* owner_names: Owner, else Legal, trimmed, of every record that has one
owner_names(records) ==
    {Strip(IF records[i]["Owner"] # <<>> THEN records[i]["Owner"] ELSE records[i]["Legal"]) :
        i \in 1..Len(records)} \ {<<>>}

\* the loop that creates the owners missing for names (a sorted list), from
\* the i-th name on: the list, the ids in use, and whether anything was appended
RECURSIVE provision_owners(_, _, _, _)
provision_owners(us, names, i, n) ==
    IF i > Len(names) THEN [users |-> us, n |-> n, changed |-> FALSE]
    ELSE IF find_user_by_name(us, names[i]) = 0
    THEN LET rest == provision_owners(
                         Append(us, [id |-> new_id(n), name |-> names[i],
                                     job_title |-> <<>>, function |-> <<>>]),
                         names, i + 1, n + 1)
         IN  [rest EXCEPT !.changed = TRUE]
    ELSE provision_owners(us, names, i + 1, n)

\* the key of the append mode's duplicate test
triple(m) == <<m["Ref"], m["Counterparty"], m["Date Received"]>>

\* a duplicate test that also drops a record whose triple an earlier record of
\* the same sheet has
RECURSIVE new_items_once(_, _)
new_items_once(existing, records) ==
    IF records = <<>> THEN <<>>
    ELSE LET r == records[Len(records)]
             front == SubSeq(records, 1, Len(records) - 1)
             earlier == {triple(existing[i]) : i \in 1..Len(existing)}
                            \cup {triple(front[i]) : i \in 1..Len(front)}
         IN  IF triple(r) \in earlier THEN new_items_once(existing, front)
             ELSE Append(new_items_once(existing, front), r)

\* new_items: the records whose triple no existing matter has
new_items(existing, records) ==
    LET seen == {triple(existing[i]) : i \in 1..Len(existing)}
        fresh(r) == triple(r) \notin seen
    IN  SelectSeq(records, fresh)

\* a merge that appends every record, duplicates of the store included
append_merge_all(existing, records) == existing \o records

\* a merge that writes the new items alone
append_merge_fresh(existing, records) == new_items(existing, records)

\* existing + new_items, the list the append mode writes
append_merge(existing, records) == existing \o new_items(existing, records)

(***************************************************************************)
(* The requests of the model: what a browser, an API client or a sheet     *)
(* sends.  Texts are spelled once here.                                    *)
(***************************************************************************)
sM1 == <<"M","-","1">>
sM2 == <<"M","-","2">>
sAcme == <<"A","c","m","e">>
sBob == <<"B","o","b">>
sbob == <<"b","o","b">>
sAl == <<"A","l">>
sGC == <<"G","C">>
sClosed == <<"C","l","o","s","e","d">>
sReview == <<"R","e","c","e","i","v","e","d","/","U","n","d","e","r"," ","R","e","v","i","e","w">>
sSoon == <<"s","o","o","n">>
sDmy == <<"0","1","/","0","2","/","2","0","2","4">>
sIso == <<"2","0","2","4","-","0","2","-","0","1">>
sDmy5 == <<"0","5","/","0","2","/","2","0","2","4">>
sLate == <<"2","0","2","4","-","0","3","-","0","5">>

\* request.form of the matter form, one text per field
MatterForms == {
    [f \in SeqToSet(FIELDS) |->
        CASE f = "Ref" -> sM1 [] f = "Counterparty" -> sAcme
          [] f = "Date Received" -> sDmy [] f = "Overall Status" -> sReview
          [] f = "Days with Legal" -> <<" ", "3">> [] f = "Owner" -> <<"b", "o", "b", " ">>
          [] OTHER -> <<>>],
    [f \in SeqToSet(FIELDS) |->
        CASE f = "Ref" -> sM2 [] f = "Legal" -> sAl
          [] f = "Date Received" -> sSoon [] f = "Date Closed" -> sDmy5
          [] f = "Overall Status" -> sClosed
          [] f = "Days with Legal" -> <<"x">> [] f = "Total Cycle Time" -> <<"-", "4">>
          [] OTHER -> <<>>],
    [f \in SeqToSet(FIELDS) |->
        CASE f = "Date Received" -> sLate [] f = "Total Cycle Time" -> <<"7">>
          [] OTHER -> <<>>] }

\* request.form of the owner form
OwnerForms == {
    [name |-> sBob, job_title |-> <<>>, function |-> <<>>],
    [name |-> <<" ">> \o sbob \o <<" ">>, job_title |-> <<>>, function |-> <<>>],
    [name |-> sAl, job_title |-> <<" ">> \o sGC, function |-> <<>>],
    [name |-> <<" ">>, job_title |-> <<>>, function |-> <<>>] }

\* the <mid> and <uid> of a URL: an id new_id() has returned, or another text
UrlIds == {-1} \cup (1..nextId)

\* date.today() at the time of a close request
Todays == {[y |-> 2024, m |-> 2, d |-> 10]}

\* the sheets uploaded: the column labels and the rows below them
SheetColumns == <<<<"R","e","f","e","r","e","n","c","e">>,
                  <<"V","e","n","d","o","r">>,
                  <<"D","a","t","e">>,
                  <<"L","e","g","a","l">>,
                  <<"O","w","n","e","r">>,
                  <<"C","y","c","l","e"," ","T","i","m","e">>>>

SheetRows == {
    <<Text(sM1), Text(sAcme), Text(sDmy), Text(sBob), NaN, NaN>>,
    <<Text(sM1), Text(<<" ">> \o sAcme), Stamp(2024, 2, 1), NaN, Text(sbob),
      Text(<<"1", "0", ".", "0">>)>>,
    <<NaN, NaN, Text(sSoon), Text(sAl), NaN, Text(<<"1", ",", "2", "3", "4">>)>>,
    <<Text(sM2), NaN, Text(sSoon), NaN, NaN, Text(<<"-", "2">>)>> }

SeqsUpTo(S, n) == UNION {[1..k -> S] : k \in 0..n}

Sheets == {[columns |-> SheetColumns, rows |-> r] : r \in SeqsUpTo(SheetRows, MaxRows)}

\* request.form.get("mode") or "append"
Modes == {"append", "replace"}

(***************************************************************************)
(* The handlers.  last is what the handler flashes or returns: the request *)
(* handled (op), its outcome (out), the id a delete was asked for or the   *)
(* API returned (id, else 0), and the two counts of an import's message.   *)
(***************************************************************************)
Flash(op, out, id, imported, skipped) ==
    [op |-> op, out |-> out, id |-> id, imported |-> imported, skipped |-> skipped]

\* int(x or 0), 0 on ValueError
FormInt(x) == IF x = <<>> THEN 0 ELSE IF PyInt(x).ok THEN PyInt(x).val ELSE 0

\* the record matters_new builds from the form
new_matter(form) ==
    [f \in SeqToSet(FIELDS) |->
        IF f = "Date Received" THEN normalize_date(Strip(form[f]))
        ELSE IF f \in {"Days with Legal", "Total Cycle Time"} THEN FormInt(form[f])
        ELSE Strip(form[f])]

\* POST /matters/new
matters_new(form) ==
    \E g \in {get_matters(matters, nextId)} :
        /\ matters' = Append(g.data, WithId(new_matter(form), new_id(g.n)))
        /\ nextId' = g.n + 1
        /\ last' = Flash("matters_new", "created", 0, 0, 0)
        /\ UNCHANGED users

\* the matter matters_close writes for m
closed_matter(m, today) ==
    LET today_iso == IsoFormat(today.y, today.m, today.d)
        received == normalize_date(m["Date Received"])
    IN  [m EXCEPT !["Overall Status"] = sClosed,
                  !["Date Closed"] = today_iso,
                  !["Date Received"] = received,
                  !["Total Cycle Time"] = compute_cycle_days(received, today_iso)]

\* POST /matters/<mid>/close
matters_close(mid, today) ==
    \E g \in {get_matters(matters, nextId)} :
    \E i \in {FirstWithId(g.data, mid)} :
        /\ nextId' = g.n
        /\ UNCHANGED users
        /\ IF i = 0
           THEN /\ matters' = g.data
                /\ last' = Flash("matters_close", "not_found", 0, 0, 0)
           ELSE /\ matters' = [g.data EXCEPT ![i] = closed_matter(g.data[i], today)]
                /\ last' = Flash("matters_close", "closed", 0, 0, 0)

\* an edit that stores the two dates as typed: edited_matter without its
\* normalize_date
edited_matter_raw(m, form) ==
    LET m1 == [k \in DOMAIN m |->
                  IF k = "id" THEN m[k]
                  ELSE IF k \in {"Days with Legal", "Total Cycle Time"}
                       THEN FormInt(Strip(form[k]))
                  ELSE Strip(form[k])]
    IN  IF m1["Date Closed"] # <<>>
        THEN [m1 EXCEPT !["Total Cycle Time"] =
                            compute_cycle_days(m1["Date Received"], m1["Date Closed"])]
        ELSE m1

\* the matter matters_edit writes for m
edited_matter(m, form) ==
    LET m1 == [k \in DOMAIN m |->
                  IF k = "id" THEN m[k]
                  ELSE IF k \in {"Date Received", "Date Closed"}
                       THEN normalize_date(Strip(form[k]))
                  ELSE IF k \in {"Days with Legal", "Total Cycle Time"}
                       THEN FormInt(Strip(form[k]))
                  ELSE Strip(form[k])]
    IN  IF m1["Date Closed"] # <<>>
        THEN [m1 EXCEPT !["Total Cycle Time"] =
                            compute_cycle_days(m1["Date Received"], m1["Date Closed"])]
        ELSE m1

\* POST /matters/<mid>/edit
matters_edit(mid, form) ==
    \E g \in {get_matters(matters, nextId)} :
    \E i \in {FirstWithId(g.data, mid)} :
        /\ nextId' = g.n
        /\ UNCHANGED users
        /\ IF i = 0
           THEN /\ matters' = g.data
                /\ last' = Flash("matters_edit", "not_found", 0, 0, 0)
           ELSE /\ matters' = [g.data EXCEPT ![i] = edited_matter(g.data[i], form)]
                /\ last' = Flash("matters_edit", "updated", 0, 0, 0)

\* POST /matters/<mid>/delete
matters_delete(mid) ==
    \E g \in {get_matters(matters, nextId)} :
    LET keep(m) == m["id"] # mid
    IN  /\ nextId' = g.n
        /\ matters' = SelectSeq(g.data, keep)
        /\ last' = Flash("matters_delete", "deleted", mid, 0, 0)
        /\ UNCHANGED users

\* GET /: the dashboard reads the matters
dashboard ==
    \E g \in {get_matters(matters, nextId)} :
        /\ nextId' = g.n
        /\ matters' = g.data
        /\ last' = Flash("dashboard", "ok", 0, 0, 0)
        /\ UNCHANGED users

\* normalize_headers(df.columns) for the column lists of the sheets, computed
\* once for each
HeaderMaps == [c \in {s.columns : s \in Sheets} |-> normalize_headers(c)]

\* build_record for the rows of the sheets under the mapping of their columns,
\* computed once for each
BuiltRows ==
    [cr \in {<<s.columns, r>> : s \in Sheets, r \in SheetRows} |->
        build_record(cr[1], cr[2], HeaderMaps[cr[1]])]

\* POST /import, for an upload pandas could read: sheet.columns is df.columns,
\* sheet.rows is df.iterrows()
import_matters(sheet, mode) ==
    \E records \in {build_records(
                       [i \in 1..Len(sheet.rows) |->
                           BuiltRows[<<sheet.columns, sheet.rows[i]>>]],
                       1, nextId)} :
        IF records = <<>>
        THEN /\ last' = Flash("import", "nothing", 0, 0, 0)
             /\ UNCHANGED <<matters, users, nextId>>
        ELSE \E p \in {provision_owners(users, Sorted(owner_names(records)), 1,
                                        nextId + Len(records))} :
             /\ users' = p.users
             /\ IF mode = "replace"
                THEN /\ matters' = records
                     /\ nextId' = p.n
                     /\ last' = Flash("import", "replaced", 0, Len(records), 0)
                ELSE \E g \in {get_matters(matters, p.n)} :
                     \E merged \in {append_merge(g.data, records)} :
                     /\ matters' = merged
                     /\ nextId' = g.n
                     /\ last' = Flash("import", "appended", 0,
                                      Len(merged) - Len(g.data),
                                      Len(records) - (Len(merged) - Len(g.data)))

\* POST /owners/new
owners_new(form) ==
    \E name \in {Strip(form.name)} :
        /\ UNCHANGED matters
        /\ IF name = <<>>
           THEN /\ last' = Flash("owners_new", "name_required", 0, 0, 0)
                /\ UNCHANGED <<users, nextId>>
           ELSE IF find_user_by_name(users, name) # 0
           THEN /\ last' = Flash("owners_new", "exists", 0, 0, 0)
                /\ UNCHANGED <<users, nextId>>
           ELSE /\ users' = Append(users, [id |-> new_id(nextId), name |-> name,
                                           job_title |-> Strip(form.job_title),
                                           function |-> Strip(form.function)])
                /\ nextId' = nextId + 1
                /\ last' = Flash("owners_new", "created", 0, 0, 0)

\* the owner owners_edit writes for user
edited_owner(user, form) ==
    [user EXCEPT !.name = Strip(form.name),
                 !.job_title = Strip(form.job_title),
                 !.function = Strip(form.function)]

\* POST /owners/<uid>/edit
owners_edit(uid, form) ==
    \E i \in {FirstWithId(users, uid)} :
        /\ UNCHANGED <<matters, nextId>>
        /\ IF i = 0
           THEN /\ last' = Flash("owners_edit", "not_found", 0, 0, 0)
                /\ UNCHANGED users
           ELSE /\ users' = [users EXCEPT ![i] = edited_owner(users[i], form)]
                /\ last' = Flash("owners_edit", "updated", 0, 0, 0)

\* a reference test that compares the trimmed names as they are spelled
in_use_cased(user, ms) ==
    \E i \in 1..Len(ms) : Strip(ms[i]["Owner"]) = Strip(user.name)

\* in_use of owners_delete: some matter's Owner is the owner's name, both
\* trimmed and lower-cased
in_use(user, ms) ==
    \E i \in 1..Len(ms) : Lower(Strip(ms[i]["Owner"])) = Lower(Strip(user.name))

\* POST /owners/<uid>/delete
owners_delete(uid) ==
    \E i \in {FirstWithId(users, uid)} :
    \E g \in {get_matters(matters, nextId)} :
    LET keep(u) == u.id # uid
    IN  IF i = 0
        THEN /\ last' = Flash("owners_delete", "not_found", uid, 0, 0)
             /\ UNCHANGED <<matters, users, nextId>>
        ELSE /\ matters' = g.data
             /\ nextId' = g.n
             /\ IF in_use(users[i], g.data)
                THEN /\ last' = Flash("owners_delete", "in_use", uid, 0, 0)
                     /\ UNCHANGED users
                ELSE /\ users' = SelectSeq(users, keep)
                     /\ last' = Flash("owners_delete", "deleted", uid, 0, 0)

\* the JSON bodies posted to /api/matters: every canonical field as text, and
\* an "id" key or none
ApiBodies == {
    [f \in SeqToSet(FIELDS) |->
        CASE f = "Ref" -> sM1 [] f = "Date Received" -> sDmy
          [] f = "Owner" -> sBob
          [] f \in {"Days with Legal", "Total Cycle Time"} -> 0
          [] OTHER -> <<>>] }

\* the "id" an API client sends: "" (0) or a text of its own (-1)
ApiIds == {0, -1}

\* POST /api/matters with an "id" key in the body: setdefault keeps it
api_matters_with_id(body, id) ==
    \E g \in {get_matters(matters, nextId)} :
        /\ matters' = Append(g.data, WithId(body, id))
        /\ nextId' = g.n
        /\ last' = Flash("api_matters", "ok", id, 0, 0)
        /\ UNCHANGED users

\* POST /api/matters with no "id" key in the body: setdefault sets new_id()
api_matters_no_id(body) ==
    \E g \in {get_matters(matters, nextId)} :
        /\ matters' = Append(g.data, WithId(body, new_id(g.n)))
        /\ nextId' = g.n + 1
        /\ last' = Flash("api_matters", "ok", new_id(g.n), 0, 0)
        /\ UNCHANGED users

(***************************************************************************)
(* The application: both stores start empty (load_json of a missing file   *)
(* is []), and requests are handled one at a time.                         *)
(***************************************************************************)
Init ==
    /\ matters = <<>>
    /\ users = <<>>
    /\ nextId = 0
    /\ last = Flash("init", "", 0, 0, 0)
    /\ req = [op |-> "none"]

\* the bounds of a run: the sizes of the two files and the ids handed out
Bounded(maxMatters, maxUsers, maxIds) ==
    /\ Len(matters') <= maxMatters
    /\ Len(users') <= maxUsers
    /\ nextId' <= maxIds

\* one request handled, within the bounds; req is not recorded
Handle(A) == A /\ UNCHANGED req /\ Bounded(MaxMatters, MaxUsers, MaxIds)

\* the requests that read and write matters: the matter pages, the dashboard,
\* the import
Next ==
    \/ \E form \in MatterForms : Handle(matters_new(form))
    \/ \E mid \in UrlIds, today \in Todays : Handle(matters_close(mid, today))
    \/ \E mid \in UrlIds, form \in MatterForms : Handle(matters_edit(mid, form))
    \/ \E mid \in UrlIds : Handle(matters_delete(mid))
    \/ Handle(dashboard)
    \/ \E sheet \in Sheets, mode \in Modes : Handle(import_matters(sheet, mode))

Spec == Init /\ [][Next]_vars

\* the same requests and the API's POST
NextApi ==
    \/ Next
    \/ \E body \in ApiBodies, id \in ApiIds : Handle(api_matters_with_id(body, id))
    \/ \E body \in ApiBodies : Handle(api_matters_no_id(body))

SpecApi == Init /\ [][NextApi]_vars

\* the requests that write owners, and those that give matters an Owner
NextOwners ==
    \/ \E form \in OwnerForms : Handle(owners_new(form))
    \/ \E uid \in UrlIds, form \in OwnerForms : Handle(owners_edit(uid, form))
    \/ \E uid \in UrlIds : Handle(owners_delete(uid))
    \/ \E form \in MatterForms : Handle(matters_new(form))
    \/ \E mid \in UrlIds : Handle(matters_delete(mid))
    \/ \E sheet \in Sheets, mode \in Modes : Handle(import_matters(sheet, mode))

SpecOwners == Init /\ [][NextOwners]_vars

(***************************************************************************)
(* One import observed: the stores are filled through the forms, then a    *)
(* sheet is imported, and req keeps the request and the stores it found.   *)
(* An import adds at most one matter and one owner per row, so the step    *)
(* needs no bound of its own.                                              *)
(***************************************************************************)
Fill(A) == req.op = "none" /\ Handle(A)

Observe(sheet, mode) ==
    /\ req.op = "none"
    /\ import_matters(sheet, mode)
    /\ req' = [op |-> "import", sheet |-> sheet, mode |-> mode,
               matters |-> matters, users |-> users, nextId |-> nextId]

NextImport ==
    \/ \E form \in MatterForms : Fill(matters_new(form))
    \/ \E form \in OwnerForms : Fill(owners_new(form))
    \/ \E sheet \in Sheets, mode \in Modes : Observe(sheet, mode)

SpecImport == Init /\ [][NextImport]_vars

(***************************************************************************)
(* Header reconciliation alone: req holds the column labels of a sheet,    *)
(* last the mapping normalize_headers returns for them.                    *)
(***************************************************************************)
cReference == <<"R","e","f","e","r","e","n","c","e">>
cReceived == <<"R","e","c","e","i","v","e","d">>
cVendor == <<"V","e","n","d","o","r">>
cDateReceived == <<"d","a","t","e","_","r","e","c","e","i","v","e","d">>
cLegal == <<"L","e","g","a","l">>
cSTATUS == <<" ","S","T","A","T","U","S">>

ColumnLabels == {cReference, cReceived, cVendor, cDateReceived, cLegal, cSTATUS}

\* df.columns: up to MaxCols labels, no label twice (pandas renames a repeat)
ColumnLists ==
    {c \in SeqsUpTo(ColumnLabels, MaxCols) :
        \A i, j \in 1..Len(c) : i # j => c[i] # c[j]}

InitHeaders ==
    /\ matters = <<>>
    /\ users = <<>>
    /\ nextId = 0
    /\ last = [op |-> "init"]
    /\ req \in {[op |-> "normalize_headers", columns |-> c] : c \in ColumnLists}

Reconcile ==
    /\ last.op = "init"
    /\ last' = [op |-> "normalize_headers", mapping |-> normalize_headers(req.columns)]
    /\ UNCHANGED <<matters, users, nextId, req>>

NextHeaders == Reconcile

SpecHeaders == InitHeaders /\ [][NextHeaders]_vars

(***************************************************************************)
(* The monthly counts of the dashboard, computed for a list of matters.    *)
(***************************************************************************)
MaxCounted == 5     \* matters in a list given to compute_monthly_counts

\* a key that is the whole text: month_key without its slice
month_key_whole(date_str) == IF date_str = <<>> THEN <<>> ELSE date_str

\* month_key(date_str): date_str[:7]
month_key(date_str) ==
    IF Len(date_str) <= 7 THEN date_str ELSE SubSeq(date_str, 1, 7)

\* sub in s, for two str
HasSub(s, sub) ==
    \E i \in 0..(Len(s) - Len(sub)) : SubSeq(s, i + 1, i + Len(sub)) = sub

\* is_closed(m): the status, trimmed and lower-cased, is "closed" or "done" or
\* contains one of the closing words
is_closed(m) ==
    LET s == Lower(Strip(m["Overall Status"]))
    IN  \/ s = <<"c","l","o","s","e","d">>
        \/ HasSub(s, <<"c","l","o","s","e">>)
        \/ HasSub(s, <<"c","o","m","p","l","e","t","e">>)
        \/ HasSub(s, <<"e","x","e","c","u","t","e","d">>)
        \/ HasSub(s, <<"s","i","g","n","e","d">>)
        \/ s = <<"d","o","n","e">>

\* the Counter the loop of compute_monthly_counts fills, from the i-th matter
\* on: counts[mk] gains one for a matter with a month key mk (by_month_new),
\* or for a closed one (by_month_closed)
RECURSIVE CountByMonth(_, _, _, _)
CountByMonth(ms, i, counts, closed_only) ==
    IF i > Len(ms) THEN counts
    ELSE LET mk == month_key(ms[i]["Date Received"])
         IN  IF mk = <<>> \/ (closed_only /\ ~is_closed(ms[i]))
             THEN CountByMonth(ms, i + 1, counts, closed_only)
             ELSE IF mk \in DOMAIN counts
             THEN CountByMonth(ms, i + 1, [counts EXCEPT ![mk] = @ + 1],
                               closed_only)
             ELSE CountByMonth(ms, i + 1,
                               [k \in DOMAIN counts \cup {mk} |->
                                   IF k = mk THEN 1 ELSE counts[k]],
                               closed_only)

\* Counter.get(m, 0)
CounterGet(counts, m) == IF m \in DOMAIN counts THEN counts[m] ELSE 0

\* the running sums of new - closed over the first n months
RECURSIVE Rolling(_, _, _, _)
Rolling(months, by_month_new, by_month_closed, n) ==
    IF n = 0 THEN <<>>
    ELSE LET before == Rolling(months, by_month_new, by_month_closed, n - 1)
             running == IF n = 1 THEN 0 ELSE before[n - 1]
         IN  Append(before, running + CounterGet(by_month_new, months[n])
                                    - CounterGet(by_month_closed, months[n]))

\* compute_monthly_counts(matters): months, new_vals, closed_vals, rolling
compute_monthly_counts(ms) ==
    LET by_month_new == CountByMonth(ms, 1, <<>>, FALSE)
        by_month_closed == CountByMonth(ms, 1, <<>>, TRUE)
        months == Sorted(DOMAIN by_month_new \cup DOMAIN by_month_closed)
    IN  [months |-> months,
         new_vals |-> [i \in 1..Len(months) |-> CounterGet(by_month_new, months[i])],
         closed_vals |-> [i \in 1..Len(months) |-> CounterGet(by_month_closed, months[i])],
         rolling |-> Rolling(months, by_month_new, by_month_closed, Len(months))]

\* a matter received on received (a text) with the status status
Received(received, status) ==
    [f \in SeqToSet(FIELDS) \cup {"id"} |->
        IF f = "id" THEN 1
        ELSE IF f = "Date Received" THEN received
        ELSE IF f = "Overall Status" THEN status
        ELSE IF f \in {"Days with Legal", "Total Cycle Time"} THEN 0
        ELSE <<>>]

\* the matters of the lists: two received in January 2024 (one closed), one in
\* February, one with no date, one whose date is the text "2024"
CountedMatters == {
    Received(<<"2","0","2","4","-","0","1","-","0","5">>, sClosed),
    Received(<<"2","0","2","4","-","0","1","-","2","0">>, <<"O","p","e","n">>),
    Received(sIso, sReview),
    Received(<<>>, sClosed),
    Received(<<"2","0","2","4">>, <<" ","S","i","g","n","e","d">>) }

InitCounts ==
    /\ matters = <<>>
    /\ users = <<>>
    /\ nextId = 0
    /\ last = [op |-> "init"]
    /\ req \in {[op |-> "compute_monthly_counts", matters |-> ms] :
                   ms \in SeqsUpTo(CountedMatters, MaxCounted)}

Count ==
    /\ last.op = "init"
    /\ \E r \in {compute_monthly_counts(req.matters)} :
          last' = [op |-> "compute_monthly_counts", months |-> r.months,
                   new_vals |-> r.new_vals, closed_vals |-> r.closed_vals,
                   rolling |-> r.rolling]
    /\ UNCHANGED <<matters, users, nextId, req>>

NextCounts == Count

SpecCounts == InitCounts /\ [][NextCounts]_vars

(***************************************************************************)
(* The two integer coercions, applied to one cell text: the record builder *)
(* of the import, and to_int.                                              *)
(***************************************************************************)
MaxText == 3        \* characters of a cell text

CellChars == {"1", "2", ",", ".", "-", " ", "n", "a", "/"}

CellTexts == SeqsUpTo(CellChars, MaxText)

\* the sheet row that carries text under the column Cycle Time
RowWithCycleTime(text) == <<Text(sM1), NaN, NaN, NaN, NaN, Text(text)>>

InitInts ==
    /\ matters = <<>>
    /\ users = <<>>
    /\ nextId = 0
    /\ last = [op |-> "init"]
    /\ req \in {[op |-> "coerce", text |-> s] : s \in CellTexts}

Coerce ==
    /\ last.op = "init"
    /\ last' = [op |-> "coerce",
                built |-> build_record(SheetColumns, RowWithCycleTime(req.text),
                                       HeaderMaps[SheetColumns])["Total Cycle Time"],
                to_int |-> to_int(req.text)]
    /\ UNCHANGED <<matters, users, nextId, req>>

NextInts == Coerce

SpecInts == InitInts /\ [][NextInts]_vars

(***************************************************************************)
(* One close request, on a store that matters_new and matters_delete made: *)
(* the request and the store it met are recorded in req.                   *)
(***************************************************************************)
\* the forms of the matters to close: those of MatterForms, and one with no
\* Date Received
CloseForms ==
    MatterForms \cup
    {[f \in SeqToSet(FIELDS) |->
        CASE f = "Ref" -> sM2 [] f = "Counterparty" -> sAcme
          [] f = "Overall Status" -> sReview [] f = "Total Cycle Time" -> <<"7">>
          [] OTHER -> <<>>]}

\* date.today() of the close request: 10 February and 1 March 2024
CloseTodays == {[y |-> 2024, m |-> 2, d |-> 10], [y |-> 2024, m |-> 3, d |-> 1]}

ObserveClose(mid, today) ==
    /\ req.op = "none"
    /\ matters_close(mid, today)
    /\ req' = [op |-> "close", mid |-> mid, today |-> today, matters |-> matters]

NextClose ==
    \/ \E form \in CloseForms : Fill(matters_new(form))
    \/ \E mid \in UrlIds : Fill(matters_delete(mid))
    \/ \E mid \in UrlIds, today \in CloseTodays : ObserveClose(mid, today)

SpecClose == Init /\ [][NextClose]_vars

(***************************************************************************)
(* The same sheet imported twice in a row in append mode, into stores that *)
(* matters_new and owners_new filled.  req records the sheet, the matters  *)
(* the first import met (before) and the stores it left.                   *)
(***************************************************************************)
ImportFirst(sheet) ==
    /\ req.op = "none"
    /\ import_matters(sheet, "append")
    /\ req' = [op |-> "first", sheet |-> sheet, before |-> matters]

ImportAgain ==
    /\ req.op = "first"
    /\ import_matters(req.sheet, "append")
    /\ req' = [op |-> "again", sheet |-> req.sheet, before |-> req.before,
               matters |-> matters, users |-> users]

NextTwice ==
    \/ \E form \in MatterForms : Fill(matters_new(form))
    \/ \E form \in OwnerForms : Fill(owners_new(form))
    \/ \E sheet \in Sheets : ImportFirst(sheet)
    \/ ImportAgain

SpecTwice == Init /\ [][NextTwice]_vars

(***************************************************************************)
(* Properties.                                                             *)
(***************************************************************************)
\* the candidate sequence of the observed import: the admitted records, in
\* row order, with their ids
Candidates ==
    build_records([i \in 1..Len(req.sheet.rows) |->
                      BuiltRows[<<req.sheet.columns, req.sheet.rows[i]>>]],
                  1, req.nextId)

\* c has the (Ref, Counterparty, Date Received) of some record of E
MatchesSome(c, E) ==
    \E i \in 1..Len(E) :
        /\ c["Ref"] = E[i]["Ref"]
        /\ c["Counterparty"] = E[i]["Counterparty"]
        /\ c["Date Received"] = E[i]["Date Received"]

\* the subsequence of C, in order, of the candidates that match no record of E
RECURSIVE Unmatched(_, _)
Unmatched(C, E) ==
    IF C = <<>> THEN <<>>
    ELSE IF MatchesSome(Head(C), E) THEN Unmatched(Tail(C), E)
    ELSE <<Head(C)>> \o Unmatched(Tail(C), E)

\* C1: an append-mode import with candidates C into a store E writes E followed
\* by the candidates, in order, whose (Ref, Counterparty, Date Received) no
\* record of E has; it reports their number as imported and the rest of C as
\* skipped.
C1_AppendWritesExistingThenUnmatched ==
    (req.op = "import" /\ req.mode = "append" /\ Candidates # <<>>) =>
        /\ matters = req.matters \o Unmatched(Candidates, req.matters)
        /\ last.imported = Len(Unmatched(Candidates, req.matters))
        /\ last.skipped = Len(Candidates) - Len(Unmatched(Candidates, req.matters))

\* C1's case: an append into a store that holds the triple of one candidate and
\* not that of another: one is skipped, one is added
C1_Witness ==
    /\ req.op = "import" /\ req.mode = "append"
    /\ req.matters # <<>>
    /\ last.skipped = 1 /\ last.imported = 1
    /\ Len(matters) = Len(req.matters) + 1


\* C2: no two owners of the store have names that are equal after trimming and
\* lower-casing, whatever owners_new, owners_edit, owners_delete and the
\* imports did.
C2_OwnerNamesUnique ==
    \A i, j \in 1..Len(users) :
        Lower(Strip(users[i].name)) = Lower(Strip(users[j].name)) => i = j

\* C3: no two stored matters have the same id, whatever matters_new, the API
\* POST, the imports, matters_edit, matters_close and matters_delete did.
C3_MatterIdsUnique ==
    \A i, j \in 1..Len(matters) : matters[i]["id"] = matters[j]["id"] => i = j

\* the owners of the store other than those with id uid
RECURSIVE Without(_, _)
Without(us, uid) ==
    IF us = <<>> THEN <<>>
    ELSE IF Head(us).id = uid THEN Without(Tail(us), uid)
    ELSE <<Head(us)>> \o Without(Tail(us), uid)

\* some stored matter's Owner is name, after trimming and lower-casing
Referenced(name) ==
    \E j \in 1..Len(matters) :
        Lower(Strip(matters[j]["Owner"])) = Lower(Strip(name))

\* C4: owners_delete(uid) on an existing owner is rejected as "in use" and
\* leaves the owner store as it was when some stored matter's Owner is the
\* owner's name after trimming and lower-casing; it removes the owner only when
\* no stored matter's Owner matches.
C4_DeleteBlockedWhileReferenced ==
    [][(last'.op = "owners_delete" /\ \E i \in 1..Len(users) : users[i].id = last'.id)
         => \E i \in 1..Len(users) :
              /\ users[i].id = last'.id
              /\ \A k \in 1..(i - 1) : users[k].id # last'.id
              /\ IF Referenced(users[i].name)
                 THEN last'.out = "in_use" /\ users' = users
                 ELSE last'.out = "deleted" /\ users' = Without(users, last'.id)]_vars

\* C4's case: a delete was refused for an owner whose name a matter spells in
\* another case
C4_Witness ==
    /\ last.op = "owners_delete" /\ last.out = "in_use"
    /\ \E i \in 1..Len(users), j \in 1..Len(matters) :
        /\ users[i].id = last.id
        /\ matters[j]["Owner"] # users[i].name
        /\ Lower(Strip(matters[j]["Owner"])) = Lower(Strip(users[i].name))

\* C5: normalize_headers of the columns Reference, Received, Vendor binds
\* Reference to Ref, Received to Date Received and Vendor to Counterparty.
C5_ReferenceReceivedVendor ==
    (last.op = "normalize_headers" /\ req.columns = <<cReference, cReceived, cVendor>>) =>
        /\ DOMAIN last.mapping = {cReference, cReceived, cVendor}
        /\ last.mapping[cReference] = "Ref"
        /\ last.mapping[cReceived] = "Date Received"
        /\ last.mapping[cVendor] = "Counterparty"

\* the rows of the observed import that the builder admits, in row order
AdmittedRows ==
    SelectSeq(req.sheet.rows,
              LAMBDA r : admitted(BuiltRows[<<req.sheet.columns, r>>]))

\* the value the row has for a canonical field: the trimmed text of its cell
\* under the last column bound to the field; empty for NaN and when no column
\* is bound to it
RowValue(row, field) ==
    LET mapping == HeaderMaps[req.sheet.columns]
        bound == {k \in 1..Len(req.sheet.columns) :
                     /\ req.sheet.columns[k] \in DOMAIN mapping
                     /\ mapping[req.sheet.columns[k]] = field}
    IN  IF bound = {} THEN <<>>
        ELSE Strip(CellStr(row[CHOOSE k \in bound : \A l \in bound : l <= k]))

\* C6: a record built from a row whose Owner value is empty and whose Legal
\* value is not is stored with its Owner equal to its Legal.
C6_OwnerFallsBackToLegal ==
    (req.op = "import" /\ last.out # "nothing") =>
        \A k \in 1..Len(AdmittedRows), i \in 1..Len(matters) :
            (/\ matters[i]["id"] = Candidates[k]["id"]
             /\ RowValue(AdmittedRows[k], "Owner") = <<>>
             /\ RowValue(AdmittedRows[k], "Legal") # <<>>)
            => matters[i]["Owner"] = matters[i]["Legal"]

\* C7: when every record built from the rows of an import has an empty Ref and
\* an empty Counterparty, the import ends as "nothing to import" and leaves
\* the matter store and the owner store as they were, in either mode.
C7_NothingToImportChangesNothing ==
    (/\ req.op = "import"
     /\ \A i \in 1..Len(req.sheet.rows) :
         LET rec == BuiltRows[<<req.sheet.columns, req.sheet.rows[i]>>]
         IN  rec["Ref"] = <<>> /\ rec["Counterparty"] = <<>>)
    => /\ last.out = "nothing"
       /\ matters = req.matters
       /\ users = req.users

\* C7's case: a sheet with a row that names an owner and nothing else, sent to
\* stores that hold a matter and an owner
C7_Witness ==
    /\ req.op = "import"
    /\ req.sheet.rows # <<>>
    /\ last.out = "nothing"
    /\ req.matters # <<>> /\ req.users # <<>>
    /\ \E i \in 1..Len(req.sheet.rows) :
        BuiltRows[<<req.sheet.columns, req.sheet.rows[i]>>]["Legal"] # <<>>

\* s is YYYY-MM-DD, four, two and two digits, and names a day of the calendar
IsIsoDate(s) ==
    /\ Len(s) = 10
    /\ \A k \in {1, 2, 3, 4, 6, 7, 9, 10} : IsDigit(s[k])
    /\ s[5] = "-" /\ s[8] = "-"
    /\ LET y == DecVal(SubSeq(s, 1, 4))
           m == DecVal(SubSeq(s, 6, 7))
           d == DecVal(SubSeq(s, 9, 10))
       IN  /\ y >= 1 /\ m \in 1..12 /\ d >= 1
           /\ d <= IF m \in {4, 6, 9, 11} THEN 30
                   ELSE IF m # 2 THEN 31
                   ELSE IF y % 4 = 0 /\ (y % 100 # 0 \/ y % 400 = 0) THEN 29
                   ELSE 28

\* s reads as a date in neither of the two formats normalize_date tries
ReadsAsNoDate(s) == ~StrptimeDMY(s).ok /\ ~StrptimeYMD(s).ok

\* what normalize_date leaves of a text: nothing, an ISO date, or the text that
\* reads as no date
OkDate(s) == s = <<>> \/ IsIsoDate(s) \/ ReadsAsNoDate(s)

IdAfterLoad(i) ==
    IF matters[i]["id"] # 0 THEN matters[i]["id"]
    ELSE nextId + Cardinality({j \in 1..i : matters[j]["id"] = 0})

IdsAfterLoad == [i \in 1..Len(matters) |-> IdAfterLoad(i)]

IdsOf(ms) == [i \in 1..Len(ms) |-> ms[i]["id"]]

\* C9, as stated: a stored matter stays in the store under its id in every step
\* that is not a matters_delete for that id.
C9_OnlyDeleteRemoves ==
    [][\A i \in 1..Len(matters) :
          ~(last'.op = "matters_delete" /\ last'.id = matters[i]["id"])
              => \E j \in 1..Len(matters') : matters'[j]["id"] = matters[i]["id"]]_vars

\* C9, amended: a stored matter stays in the store, in its place and under its
\* id (when it was stored with none: with none, or under a new id that a load
\* of the store gives it), until a
\* matters_delete for its id or a replace-mode import that admits a record;
\* matters_new, matters_edit, matters_close, the API POST, an append-mode
\* import, an import that admits nothing and the dashboard remove none.
C9_OnlyDeleteAndReplaceRemove ==
    [][IF last'.op = "import" /\ last'.out = "replaced" THEN TRUE
       ELSE IF last'.op = "matters_delete"
       THEN IdsOf(matters') = SelectSeq(IdsAfterLoad, LAMBDA x : x # last'.id)
       ELSE /\ Len(matters') >= Len(matters)
            /\ \A i \in 1..Len(matters) :
                  IF matters[i]["id"] # 0 THEN matters'[i]["id"] = matters[i]["id"]
                  ELSE \/ matters'[i]["id"] = 0
                       \/ matters'[i]["id"] \in (nextId + 1)..nextId']_vars

\* C9's case: the store holds a matter the API posted under an id of the
\* client's and, after it, a record that an append-mode import added
C9_Witness ==
    /\ last.op = "import" /\ last.out = "appended" /\ last.imported >= 1
    /\ Len(matters) >= 2
    /\ matters[1]["id"] = -1

\* the owners the observed import created
Provisioned == SubSeq(users, Len(req.users) + 1, Len(users))

\* C10: the provisioning step of an import, run again with the same candidate
\* names on the store it left, appends no owner and does not save the store;
\* the first run created at most one owner for each name, names compared
\* trimmed and lower-cased, and none for a name an owner already had.
C10_ProvisioningIdempotent ==
    (req.op = "import" /\ last.out # "nothing") =>
        /\ LET again == provision_owners(users, Sorted(owner_names(Candidates)),
                                         1, nextId)
           IN  again.users = users /\ again.changed = FALSE
        /\ SubSeq(users, 1, Len(req.users)) = req.users
        /\ \A i, j \in 1..Len(Provisioned) :
              Lower(Strip(Provisioned[i].name)) = Lower(Strip(Provisioned[j].name))
                  => i = j
        /\ \A i \in 1..Len(Provisioned), j \in 1..Len(req.users) :
              Lower(Strip(Provisioned[i].name)) # Lower(Strip(req.users[j].name))

\* C10's case: a sheet that names Bob and bob, for which one owner was created
C10_Witness ==
    /\ req.op = "import" /\ last.out # "nothing"
    /\ {sBob, sbob} \subseteq owner_names(Candidates)
    /\ Len(Provisioned) = 1

\* s starts with p
StartsWith(s, p) == Len(p) <= Len(s) /\ \A k \in 1..Len(p) : s[k] = p[k]

\* p is the first seven characters of s, all of s when s is shorter
IsFirstSeven(p, s) ==
    /\ StartsWith(s, p)
    /\ IF Len(s) >= 7 THEN Len(p) = 7 ELSE Len(p) = Len(s)

\* the number of matters of the counted list with a non-empty Date Received
\* that starts with p (by_prefix) or has p as its first seven characters, the
\* closed ones alone when closed_only
NumberUnder(p, by_prefix, closed_only) ==
    Cardinality({k \in 1..Len(req.matters) :
        /\ req.matters[k]["Date Received"] # <<>>
        /\ IF by_prefix THEN StartsWith(req.matters[k]["Date Received"], p)
           ELSE IsFirstSeven(p, req.matters[k]["Date Received"])
        /\ closed_only => is_closed(req.matters[k])})

\* the sum of the first n entries of new_vals - closed_vals
RECURSIVE NetUpTo(_)
NetUpTo(n) ==
    IF n = 0 THEN 0 ELSE NetUpTo(n - 1) + last.new_vals[n] - last.closed_vals[n]

\* months ascending without repeats, the three arrays aligned with it, closed
\* counted among the new, rolling the running net
CountsShape ==
    /\ \A i, j \in 1..Len(last.months) : i < j => StrLess(last.months[i], last.months[j])
    /\ Len(last.new_vals) = Len(last.months)
    /\ Len(last.closed_vals) = Len(last.months)
    /\ Len(last.rolling) = Len(last.months)
    /\ \A i \in 1..Len(last.months) : last.rolling[i] = NetUpTo(i)
    /\ \A i \in 1..Len(last.months) : last.months[i] # <<>>

\* C11, as stated: months are ascending without repeats, new[i] counts the
\* matters whose Date Received starts with months[i], closed[i] those of them
\* that are closed, rolling[i] is the sum of new - closed up to i, and a matter
\* with an empty Date Received is counted in no month.
C11_CountsByPrefix ==
    last.op = "compute_monthly_counts" =>
        /\ CountsShape
        /\ \A i \in 1..Len(last.months) :
            /\ last.new_vals[i] = NumberUnder(last.months[i], TRUE, FALSE)
            /\ last.closed_vals[i] = NumberUnder(last.months[i], TRUE, TRUE)

\* C11, amended: as stated, with new[i] counting the matters whose Date
\* Received has months[i] as its first seven characters (all of it, when it is
\* shorter), and every matter with a non-empty Date Received counted in one
\* month.
C11_CountsByFirstSeven ==
    last.op = "compute_monthly_counts" =>
        /\ CountsShape
        /\ \A i \in 1..Len(last.months) :
            /\ last.new_vals[i] = NumberUnder(last.months[i], FALSE, FALSE)
            /\ last.closed_vals[i] = NumberUnder(last.months[i], FALSE, TRUE)
        /\ \A k \in 1..Len(req.matters) :
              req.matters[k]["Date Received"] # <<>> =>
                  \E i \in 1..Len(last.months) :
                      IsFirstSeven(last.months[i], req.matters[k]["Date Received"])

\* C11's case: three matters received in 2024-01, one of them closed, and two
\* in 2024-02, none closed
C11_Witness ==
    /\ last.op = "compute_monthly_counts"
    /\ Len(req.matters) = 5
    /\ last.months = << <<"2","0","2","4","-","0","1">>, <<"2","0","2","4","-","0","2">> >>
    /\ last.new_vals = <<3, 2>>
    /\ last.closed_vals = <<1, 0>>
    /\ last.rolling = <<2, 4>>

\* C12: each stored matter's Days with Legal and Total Cycle Time is an integer
\* greater than or equal to 0, whatever the forms and the sheets held.
C12_CountsOfDaysNonNegative ==
    \A i \in 1..Len(matters) :
        /\ matters[i]["Days with Legal"] \in Nat
        /\ matters[i]["Total Cycle Time"] \in Nat

\* C13: the record builder of the import coerces a cell text to the integer
\* to_int returns for it.
C13_BuilderCoercesAsToInt ==
    last.op = "coerce" => last.built = last.to_int

\* the number of the day y-m-d, counted in whole 400-year eras from 1 March
DayNumber(y, m, d) ==
    LET yy == IF m <= 2 THEN y - 1 ELSE y
        era == yy \div 400
        yoe == yy - era * 400
        mp == IF m > 2 THEN m - 3 ELSE m + 9
        doy == (153 * mp + 2) \div 5 + d - 1
    IN  era * 146097 + yoe * 365 + yoe \div 4 - yoe \div 100 + doy

\* the days from the date received, a text, to today; 0 when the text is empty
\* or no valid date, and when today comes first
DaysUntil(received, today) ==
    IF ~IsIsoDate(received) THEN 0
    ELSE LET from == DayNumber(DecVal(SubSeq(received, 1, 4)),
                               DecVal(SubSeq(received, 6, 7)),
                               DecVal(SubSeq(received, 9, 10)))
             to == DayNumber(today.y, today.m, today.d)
         IN  IF to > from THEN to - from ELSE 0

\* s is the ISO text of the date today
IsDateOf(s, today) ==
    /\ IsIsoDate(s)
    /\ DecVal(SubSeq(s, 1, 4)) = today.y
    /\ DecVal(SubSeq(s, 6, 7)) = today.m
    /\ DecVal(SubSeq(s, 9, 10)) = today.d

C15_SecondAppendImportChangesNothing ==
    req.op = "again" =>
        /\ matters = req.matters
        /\ users = req.users
        /\ AdmittedRows # <<>> =>
              /\ last.out = "appended"
              /\ last.imported = 0
              /\ last.skipped = Len(AdmittedRows)

\* C15's case: the first import added two records of one triple, the second
\* skipped both
C15_Witness ==
    /\ req.op = "again"
    /\ Len(req.matters) = Len(req.before) + 2
    /\ LET n == Len(req.matters)
       IN  /\ req.matters[n]["Ref"] = req.matters[n - 1]["Ref"]
           /\ req.matters[n]["Counterparty"] = req.matters[n - 1]["Counterparty"]
           /\ req.matters[n]["Date Received"] = req.matters[n - 1]["Date Received"]
           /\ req.matters[n]["Owner"] # req.matters[n - 1]["Owner"]
    /\ last.imported = 0 /\ last.skipped = 2

====
